---- MODULE Spec2Model ----
(***************************************************************************)
(* Lisn: push-to-talk dictation daemon.                                    *)
(*                                                                         *)
(* The model covers the evdev reader loops of HotkeyListener (debounced    *)
(* trigger edges, one handler thread per edge), the DaemonProcess state    *)
(* machine (press handler, release handler, pipeline thread), the          *)
(* AudioRecorder buffer and the GroqClient transcription retry loop.       *)
(*                                                                         *)
(* Conventions                                                             *)
(*  - amplitudes are integers in hundredths (0.01 == 1);                   *)
(*  - texts are sequences of one-character strings;                        *)
(*  - an exception message is represented by the set of the substrings     *)
(*    the daemon tests for ("api_key", "auth", "rate", "connect",          *)
(*    "network") that occur in its lower-cased text; the prefixes added    *)
(*    by GroqClient ("API error: ", "Unexpected error: ", "Transcription   *)
(*    failed after N attempts: ") contain none of them.                    *)
(***************************************************************************)
EXTENDS Integers, Sequences, FiniteSets, Bags, TLC

\* ---------------------------------------------------------------- bounds
\* number of press edges (and so of press handler threads) modelled
MaxCycles == 2
\* number of audio blocks the stream callback may append to one buffer
MaxBlocks == 1
\* samples per second of the (scaled down) audio stream
SampleRate == 20
\* input devices of the system
NumDevices == 2
\* raw events the reader loops read, all keyboards together
MaxEvents == 4

\* ------------------------------------------------------------- constants
\* amplitude threshold 0.01, in hundredths
Threshold == 1
\* GroqClient.max_retries
max_retries == 3
\* range(2) in the daemon's transcription loop
DaemonAttempts == 2

None == "None"
\* nobody holds the daemon lock
Free == "free"

\* DaemonState
IDLE == "idle"
RECORDING == "recording"
PROCESSING == "processing"
ERROR == "error"
DaemonState == {IDLE, RECORDING, PROCESSING, ERROR}

\* ------------------------------------------------------ small utilities
Abs(x) == IF x < 0 THEN -x ELSE x
Min(a, b) == IF a < b THEN a ELSE b
Max(a, b) == IF a > b THEN a ELSE b

RECURSIVE Flatten(_)
\* np.concatenate(self._audio_buffer, axis=0)
Flatten(blocks) ==
    IF blocks = <<>> THEN <<>> ELSE Head(blocks) \o Flatten(Tail(blocks))

\* ------------------------------------------------------------ audio.py
\* blocks the sounddevice callback can deliver
QuietBlock == <<0, 1, -1>>
ShortBlock == <<0, 2, -2, 0>>
LoudBlock == <<0, 0, 2, -2, 3, 2, 2, -2, 2, 0>>
BlockKinds == {QuietBlock, ShortBlock, LoudBlock}

\* indices of the samples whose amplitude exceeds the threshold
AboveThreshold(audio) == {i \in 1..Len(audio) : Abs(audio[i]) > Threshold}

SetMin(S) == CHOOSE x \in S : \A y \in S : x <= y
SetMax(S) == CHOOSE x \in S : \A y \in S : x >= y

\* trim_silence(audio, sample_rate): python slices are 0-based, half open
trim_silence(audio) ==
    IF Len(audio) = 0 THEN audio
    ELSE IF AboveThreshold(audio) = {}
         THEN SubSeq(audio, 1, Min(Len(audio), SampleRate \div 10))
         ELSE LET pad == (SampleRate * 5) \div 100
                  first0 == SetMin(AboveThreshold(audio)) - 1
                  last0 == SetMax(AboveThreshold(audio)) - 1
                  start_idx == Max(0, first0 - pad)
                  end_idx == Min(Len(audio), last0 + pad)
              IN SubSeq(audio, start_idx + 1, end_idx)

\* is_silent that takes any sample above the threshold for speech
is_silentAnySample(audio) ==
    IF Len(audio) = 0 THEN TRUE ELSE AboveThreshold(audio) = {}

\* is_silent(audio, sample_rate): speech_samples / sample_rate < 0.3
is_silent(audio) ==
    IF Len(audio) = 0 THEN TRUE
    ELSE Cardinality(AboveThreshold(audio)) * 10 < 3 * SampleRate

\* to_wav_bytes: a 44 byte RIFF header followed by the 16-bit frames
to_wav_bytes(audio) == [header |-> 44, frames |-> audio]
WavLen(wav) == wav.header + 2 * Len(wav.frames)

\* ------------------------------------------------------ groq_client.py
RECURSIVE LStrip(_)
LStrip(t) == IF t # <<>> /\ Head(t) = " " THEN LStrip(Tail(t)) ELSE t
RECURSIVE RStrip(_)
RStrip(t) ==
    IF t # <<>> /\ t[Len(t)] = " " THEN RStrip(SubSeq(t, 1, Len(t) - 1)) ELSE t
\* str.strip()
Strip(t) == RStrip(LStrip(t))

\* what one call of audio.transcriptions.create can do
ResponseTexts == {<<" ">>, <<" ", "h", "i">>}
ApiOk(t) == [cls |-> "ok", status |-> 200, text |-> t, words |-> {}]
RateLimitError == [cls |-> "RateLimitError", status |-> 429, text |-> <<>>, words |-> {"rate"}]
APIConnectionError == [cls |-> "APIConnectionError", status |-> 0, text |-> <<>>, words |-> {"connect"}]
AuthenticationError == [cls |-> "APIError", status |-> 401, text |-> <<>>, words |-> {"api_key"}]
InternalServerError == [cls |-> "APIError", status |-> 500, text |-> <<>>, words |-> {}]
OtherException == [cls |-> "Exception", status |-> 0, text |-> <<>>, words |-> {}]
\* last_error = None
NoError == [cls |-> "None", status |-> 0, text |-> <<>>, words |-> {}]
ApiOutcomes ==
    {ApiOk(t) : t \in ResponseTexts}
        \cup {RateLimitError, APIConnectionError, AuthenticationError,
              InternalServerError, OtherException}

\* results of transcribe_audio after n API attempts: a TranscriptionResult
\* or a GroqClientError
Result(t, n) == [ok |-> TRUE, text |-> t, words |-> {}, attempts |-> n]
GroqClientError(w, n) == [ok |-> FALSE, text |-> <<>>, words |-> w, attempts |-> n]

\* a test that takes no status for a client error
IsClientErrorNever(status) == FALSE
\* `e.status_code and 400 <= e.status_code < 500`
IsClientError(status) == status # 0 /\ 400 <= status /\ status < 500

RECURSIVE transcribe_loop(_, _, _)
\* the for loop of transcribe_audio from attempt (0-based) on
transcribe_loop(outs, attempt, last_error) ==
    IF attempt >= max_retries
    THEN GroqClientError(last_error.words, attempt)
    ELSE LET o == outs[attempt + 1] IN
         CASE o.cls = "ok" -> Result(Strip(o.text), attempt + 1)
           [] o.cls = "RateLimitError" -> transcribe_loop(outs, attempt + 1, o)
           [] o.cls = "APIConnectionError" -> transcribe_loop(outs, attempt + 1, o)
           [] o.cls = "APIError" ->
                IF IsClientError(o.status)
                THEN GroqClientError(o.words, attempt + 1)
                ELSE transcribe_loop(outs, attempt + 1, o)
           [] OTHER -> GroqClientError(o.words, attempt + 1)

\* every way the API can answer the calls of one transcribe_audio
ApiBehaviours == [1..max_retries -> ApiOutcomes]

\* what the retry loop of transcribe_audio can return or raise
LoopResults == {transcribe_loop(outs, 0, NoError) : outs \in ApiBehaviours}

\* GroqClient.transcribe_audio(audio_data): the results it can produce
transcribe_audio(wav) ==
    IF WavLen(wav) = 0 THEN {Result(<<>>, 0)} ELSE LoopResults

\* GroqClient.transcribe_audio(audio_data) when the API answers its calls
\* as outs says
transcribe_audio_on(wav, outs) ==
    IF WavLen(wav) = 0 THEN Result(<<>>, 0) ELSE transcribe_loop(outs, 0, NoError)

\* what the caller of transcribe_audio sees: result.text, or str(e)
Seen(r) == [ok |-> r.ok, text |-> r.text, words |-> r.words]
CallResults == {Seen(r) : r \in LoopResults \cup {Result(<<>>, 0)}}

\* the attributes a GroqClient instance has
GroqClientMethods == {"__init__", "transcribe_audio", "is_available"}

\* what the formatting service would answer to a format request
FormattedText == <<"H", "i", ".">>
FormatOutcomes ==
    {[kind |-> "ok", text |-> FormattedText],
     [kind |-> "GroqClientError", text |-> <<>>],
     [kind |-> "Exception", text |-> <<>>]}
AttributeError == [kind |-> "Exception", text |-> <<>>]
\* format_text has not been called
NoFormat == [kind |-> "none", text |-> <<>>]

\* the call self._groq_client.format_text(text, llm_model=...) of
\* _process_recording; f is what the service would answer
format_text(text, f) ==
    IF "format_text" \in GroqClientMethods THEN f ELSE AttributeError

\* outcomes of TextInjector.inject_text
InjectOutcomes == {"ok", "InjectorError", "Exception"}
\* what a callback given to the daemon does when it is called
ObserverOutcomes == {"ok", "raises"}

\* the except clause without its "api_key" test
ErrorMessageAuthOnly(words) ==
    IF "auth" \in words THEN "Invalid API key"
    ELSE IF "rate" \in words THEN "Rate limited"
    ELSE IF "connect" \in words \/ "network" \in words THEN "No internet"
    ELSE "API error"

\* the except GroqClientError clause of _process_recording
ErrorMessage(words) ==
    IF "api_key" \in words \/ "auth" \in words THEN "Invalid API key"
    ELSE IF "rate" \in words THEN "Rate limited"
    ELSE IF "connect" \in words \/ "network" \in words THEN "No internet"
    ELSE "API error"

\* a retry test that takes every failure for a rate limit
IsRateLimitedAlways(words) == TRUE
\* "rate" in str(e).lower(), the daemon's retry test
IsRateLimited(words) == "rate" \in words

\* ------------------------------------------------------------- state
VARIABLES
    delivered,   \* per keyboard: number of raw events its reader loop has read
    forwarded,   \* per keyboard: events written to its UInput
    kind,        \* per input device: can it be opened, which keys it reports
    fd,          \* per input device: the InputDevice of the listener
    grabbed,     \* per input device: is it exclusively grabbed?
    uinput,      \* per input device: the UInput created for it
    reader,      \* per input device: where its reader thread is
    listener,    \* HotkeyListener._running, _devices, _uinputs, _threads
    pressed,     \* HotkeyListener._pressed
    nPress,      \* press callbacks dispatched (threads started on on_press)
    nRelease,    \* release callbacks dispatched
    pressSince,  \* press callbacks dispatched since the last raw release
    rawSince,    \* raw presses (value 1) handled since the last raw release
    state,       \* DaemonProcess._state
    lock,        \* which kind of handler holds DaemonProcess._lock, or Free
    hist,        \* values _state has taken since the last accepted press
    widget,      \* what the widget shows
    press,       \* live press handler threads: the bag of their positions
    release,     \* live release handler threads: the bag of their positions
    pipe,        \* live pipeline threads: the bag of their locals
    run,         \* what the pipeline run that last left its try block did
    recording,   \* AudioRecorder._recording
    buffer,      \* AudioRecorder._audio_buffer
    stream,      \* AudioRecorder._stream: "none", "open" or "unstarted"
    cleaned,     \* DaemonProcess._cleanup has returned
    call         \* a call of GroqClient.transcribe_audio on its own

listenerVars == <<kind, fd, grabbed, uinput, reader, listener>>
deviceVars == <<delivered, forwarded, listenerVars>>
edgeVars == <<pressed, nPress, nRelease, pressSince, rawSince>>
daemonVars == <<state, lock, hist, widget>>
recorderVars == <<recording, buffer, stream>>
threadVars == <<press, release, pipe, run>>
vars == <<deviceVars, edgeVars, daemonVars, recorderVars, threadVars, cleaned, call>>

Devices == 1..NumDevices

\* a start that begins two threads
SpawnTwice(B, b) == B (+) SetToBag({b}) (+) SetToBag({b})
\* threading.Thread(target=...).start(): a thread begins at position b
Spawn(B, b) == B (+) SetToBag({b})
\* a thread at position a returns from its target
Exit(B, a) == B (-) SetToBag({a})
\* a thread at position a moves to position b
Step(B, a, b) == (B (-) SetToBag({a})) (+) SetToBag({b})

\* the locals of a pipeline thread that has just been started
NewPipe == [pc |-> "fetch", audio |-> <<>>, attempt |-> 0, results |-> <<>>]

\* no pipeline run has left its try block since the last accepted press
NoRun ==
    [audio |-> <<>>, results |-> <<>>, fmt |-> NoFormat, notified |-> <<>>,
     obs |-> None, inj |-> None, injected |-> <<>>, wrote |-> <<>>]

KEY_CAPSLOCK == "KEY_CAPSLOCK"
KEY_A == "KEY_A"

\* an input device of the system: whether opening it works and the key codes
\* its EV_KEY capability lists: a keyboard, a keyboard that cannot be opened,
\* a pad with the trigger key and no letters, a keyboard without the trigger
\* key, a mouse
Keyboard == [readable |-> TRUE, keys |-> {KEY_CAPSLOCK, KEY_A}]
DeviceKinds ==
    {Keyboard,
     [readable |-> FALSE, keys |-> {KEY_CAPSLOCK, KEY_A}],
     [readable |-> TRUE, keys |-> {KEY_CAPSLOCK}],
     [readable |-> TRUE, keys |-> {KEY_A}],
     [readable |-> TRUE, keys |-> {}]}

\* HotkeyListener.__init__
NewListener ==
    [running |-> FALSE, devices |-> {}, uinputs |-> {}, threads |-> {},
     pc |-> "idle", last |-> None, stop |-> None, again |-> FALSE]

\* the daemon's own state after DaemonProcess.__init__
InitDaemon ==
    /\ delivered = [d \in Devices |-> 0]
    /\ forwarded = [d \in Devices |-> <<>>]
    /\ pressed = FALSE
    /\ nPress = 0
    /\ nRelease = 0
    /\ pressSince = 0
    /\ rawSince = 0
    /\ state = IDLE
    /\ lock = Free
    /\ hist = <<IDLE>>
    /\ widget = "hidden"
    /\ press = EmptyBag
    /\ release = EmptyBag
    /\ pipe = EmptyBag
    /\ run = NoRun
    /\ recording = FALSE
    /\ buffer = <<>>
    /\ stream = "none"
    /\ cleaned = FALSE

\* no call of transcribe_audio on its own is looked at
NoCall == [pc |-> "none", wav |-> [header |-> 0, frames |-> <<>>],
           outs |-> <<>>, result |-> Result(<<>>, 0)]

\* the state before HotkeyListener.start(), on any set of input devices
InitBoot ==
    /\ InitDaemon
    /\ call = NoCall
    /\ kind \in [Devices -> DeviceKinds]
    /\ fd = [d \in Devices |-> "none"]
    /\ grabbed = [d \in Devices |-> FALSE]
    /\ uinput = [d \in Devices |-> "none"]
    /\ reader = [d \in Devices |-> "none"]
    /\ listener = NewListener

\* the state once run() has printed "Ready": every device is a keyboard
\* that start() has taken and whose reader thread has grabbed it
InitListening ==
    /\ InitDaemon
    /\ kind = [d \in Devices |-> Keyboard]
    /\ fd = [d \in Devices |-> "open"]
    /\ grabbed = [d \in Devices |-> TRUE]
    /\ uinput = [d \in Devices |-> "open"]
    /\ reader = [d \in Devices |-> "loop"]
    /\ listener = [running |-> TRUE, devices |-> Devices, uinputs |-> Devices,
                   threads |-> Devices, pc |-> "idle", last |-> "started",
                   stop |-> None, again |-> FALSE]

Init ==
    /\ InitListening
    /\ call = NoCall

\* a call of transcribe_audio about to be made: with no bytes or with the
\* WAV bytes of a loud block, against every behaviour of the API
InitCall ==
    /\ InitListening
    /\ call \in [pc : {"called"},
                 wav : {[header |-> 0, frames |-> <<>>], to_wav_bytes(LoudBlock)},
                 outs : ApiBehaviours,
                 result : {Result(<<>>, 0)}]

\* ------------------------------------------------------------ hotkey.py
EV_KEY == "EV_KEY"
EV_MSC == "EV_MSC"
EV_SYN == "EV_SYN"
\* raw events: the trigger key (value 1 press, 0 release, 2 repeat), another
\* key, and an event that is not a key event
RawEvents ==
    [type : {EV_KEY}, code : {KEY_CAPSLOCK}, value : {0, 1, 2}]
        \cup {[type |-> EV_KEY, code |-> KEY_A, value |-> 1],
              [type |-> EV_MSC, code |-> "MSC_SCAN", value |-> 58]}
\* what uinput.syn() writes
SynReport == [type |-> EV_SYN, code |-> "SYN_REPORT", value |-> 0]

\* a trigger test that lets the key repeats through
IsTriggerEdgesOnly(e) ==
    e.type = EV_KEY /\ e.code = KEY_CAPSLOCK /\ e.value \in {0, 1}
\* `event.type == ecodes.EV_KEY` and `event.code == self.TRIGGER_KEY`
IsTrigger(e) == e.type = EV_KEY /\ e.code = KEY_CAPSLOCK

\* the press branch without its debounce test
PressDebounceAlways(p) == TRUE
\* `if not self._pressed` of the press branch
PressDebounce(p) == ~p
\* the release branch without its debounce test
ReleaseDebounceAlways(p) == TRUE
\* `if self._pressed` of the release branch
ReleaseDebounce(p) == p

\* does a trigger event of value v start a callback thread?
Dispatches(v, p) ==
    \/ v = 1 /\ PressDebounce(p)
    \/ v = 0 /\ ReleaseDebounce(p)

\* _handle_device: the branch taken for a trigger key event of value v,
\* run under the listener lock, while fewer than max press callbacks have
\* been dispatched
trigger_branch_upto(v, max) ==
    /\ (v = 1 /\ PressDebounce(pressed)) => nPress < max
    /\ rawSince' = IF v = 0 THEN 0 ELSE IF v = 1 THEN rawSince + 1 ELSE rawSince
    /\ IF v = 1 /\ PressDebounce(pressed)
       THEN /\ pressed' = TRUE
            /\ nPress' = nPress + 1
            /\ pressSince' = pressSince + 1
            /\ press' = Spawn(press, "start")
            /\ UNCHANGED <<nRelease, release>>
       ELSE IF v = 0 /\ ReleaseDebounce(pressed)
       THEN /\ pressed' = FALSE
            /\ nRelease' = nRelease + 1
            /\ pressSince' = 0
            /\ release' = Spawn(release, "start")
            /\ UNCHANGED <<nPress, press>>
       ELSE /\ pressSince' = IF v = 0 THEN 0 ELSE pressSince
            /\ UNCHANGED <<pressed, nPress, nRelease, press, release>>

\* a reader thread that gives up every grab when it ends
UngrabAll(g, d) == [x \in DOMAIN g |-> FALSE]
\* `finally: device.ungrab()` of the reader thread of keyboard d
Ungrab(g, d) == [g EXCEPT ![d] = FALSE]

\* a reader thread that runs the callbacks itself: it is busy as long as a
\* handler it has called has not returned
ReaderFreeInline(pr, rl) == pr = EmptyBag /\ rl = EmptyBag
\* is a reader thread free to read, given the handlers pr and rl in
\* progress? on_press and on_release are started as threads of their own
\* (threading.Thread(target=..., daemon=True).start()), so it always is
ReaderFree(pr, rl) == TRUE

\* the raw events the reader loops have read together
RECURSIVE SumOver(_, _)
SumOver(f, S) ==
    IF S = {} THEN 0
    ELSE LET x == CHOOSE y \in S : TRUE IN f[x] + SumOver(f, S \ {x})
Delivered == SumOver(delivered, Devices)

trigger_branch(v) == trigger_branch_upto(v, MaxCycles)

\* _handle_device: the reader loop of keyboard d reads the raw event e and
\* handles it; ok tells whether uinput.write accepts the event. A refused
\* key event ends the loop through `except Exception` and the ungrab of
\* `finally`; a refused event of another type is passed over.
handle_device(d, e, ok) ==
    /\ reader[d] = "loop"
    /\ listener.running
    /\ fd[d] = "open"
    /\ ReaderFree(press, release)
    /\ Delivered < MaxEvents
    /\ delivered' = [delivered EXCEPT ![d] = @ + 1]
    /\ IF IsTrigger(e)
       THEN /\ trigger_branch(e.value)
            /\ UNCHANGED <<forwarded, grabbed, reader>>
       ELSE /\ UNCHANGED <<edgeVars, press, release>>
            /\ IF ok /\ uinput[d] = "open"
               THEN /\ forwarded' = [forwarded EXCEPT ![d] =
                            IF e.type = EV_KEY THEN @ \o <<e, SynReport>>
                            ELSE Append(@, e)]
                    /\ UNCHANGED <<grabbed, reader>>
               ELSE IF e.type = EV_KEY
               THEN /\ reader' = [reader EXCEPT ![d] = "exited"]
                    /\ grabbed' = Ungrab(grabbed, d)
                    /\ UNCHANGED forwarded
               ELSE UNCHANGED <<forwarded, grabbed, reader>>
    /\ UNCHANGED <<kind, fd, uinput, listener>>
    /\ UNCHANGED <<daemonVars, recorderVars, pipe, run>>
    /\ UNCHANGED <<cleaned, call>>

\* a search that is content with the trigger key
find_keyboard_devicesTriggerOnly ==
    {d \in Devices : kind[d].readable /\ KEY_CAPSLOCK \in kind[d].keys}
\* find_keyboard_devices: the devices that open and whose EV_KEY
\* capability has both the trigger key and KEY_A
find_keyboard_devices ==
    {d \in Devices : kind[d].readable /\ {KEY_CAPSLOCK, KEY_A} \subseteq kind[d].keys}

\* a start() that leaves the flag set when it raises
RunningAfterAlways(created) == TRUE
\* _running when start() is over: set before the loop over the devices,
\* cleared again when no UInput could be made
RunningAfter(created) == created # {}

\* HotkeyListener.start, called once by run(); created is the set of
\* keyboards whose UInput can be made. The reader threads are started
\* here and grab their keyboards on their own (reader_grab).
start(created) ==
    /\ listener.pc = "idle"
    /\ listener.last = None
    /\ ~listener.running
    /\ created \subseteq find_keyboard_devices
    /\ fd' = [d \in Devices |-> IF kind[d].readable THEN "open" ELSE fd[d]]
    /\ IF find_keyboard_devices = {}
       THEN /\ listener' = [listener EXCEPT !.last = "NoKeyboard"]
            /\ UNCHANGED <<uinput, reader>>
       ELSE /\ uinput' = [d \in Devices |-> IF d \in created THEN "open" ELSE uinput[d]]
            /\ reader' = [d \in Devices |-> IF d \in created THEN "start" ELSE reader[d]]
            /\ listener' =
                 [running |-> RunningAfter(created),
                  devices |-> find_keyboard_devices,
                  uinputs |-> created,
                  threads |-> created,
                  pc |-> "idle",
                  last |-> IF created = {} THEN "GrabFailed" ELSE "started",
                  stop |-> listener.stop,
                  again |-> listener.again]
    /\ UNCHANGED <<delivered, forwarded, kind, grabbed>>
    /\ UNCHANGED <<edgeVars, daemonVars, recorderVars, threadVars>>
    /\ UNCHANGED <<cleaned, call>>

\* a grab that is granted on a closed device too
GrantsGrabClosed(ok, f) == ok
\* device.grab(): EVIOCGRAB on the file descriptor of the device; it raises
\* when the kernel refuses (ok false) or the device has been closed
GrantsGrab(ok, f) == ok /\ f = "open"

\* _handle_device, its first statement: the reader thread of keyboard d
\* calls device.grab(); ok tells whether the kernel grants the grab. A
\* refusal, or a device that stop() has closed, raises: the thread ends
\* through `except Exception` and `finally`.
reader_grab(d, ok) ==
    /\ reader[d] = "start"
    /\ IF GrantsGrab(ok, fd[d])
       THEN /\ grabbed' = [grabbed EXCEPT ![d] = TRUE]
            /\ reader' = [reader EXCEPT ![d] = "loop"]
       ELSE /\ reader' = [reader EXCEPT ![d] = "grab_failed"]
            /\ UNCHANGED grabbed
    /\ UNCHANGED <<delivered, forwarded, kind, fd, uinput, listener>>
    /\ UNCHANGED <<edgeVars, daemonVars, recorderVars, threadVars>>
    /\ UNCHANGED <<cleaned, call>>

\* _handle_device: `while self._running` fails, or select raises on the
\* closed device; `finally` ungrabs and the thread ends
reader_exit(d) ==
    /\ reader[d] = "loop"
    /\ ~listener.running \/ fd[d] = "closed"
    /\ reader' = [reader EXCEPT ![d] = "exited"]
    /\ grabbed' = Ungrab(grabbed, d)
    /\ UNCHANGED <<delivered, forwarded, kind, fd, uinput, listener>>
    /\ UNCHANGED <<edgeVars, daemonVars, recorderVars, threadVars>>
    /\ UNCHANGED <<cleaned, call>>

\* _handle_device: select or device.read() raises while the listener runs
\* (the keyboard has been unplugged); `except Exception` prints, `finally`
\* ungrabs and the thread ends
reader_error(d) ==
    /\ reader[d] = "loop"
    /\ listener.running
    /\ fd[d] = "open"
    /\ reader' = [reader EXCEPT ![d] = "exited"]
    /\ grabbed' = Ungrab(grabbed, d)
    /\ UNCHANGED <<delivered, forwarded, kind, fd, uinput, listener>>
    /\ UNCHANGED <<edgeVars, daemonVars, recorderVars, threadVars>>
    /\ UNCHANGED <<cleaned, call>>

\* the reader thread of keyboard d has returned
ReaderEnded(d) == reader[d] \in {"none", "exited", "grab_failed"}

\* HotkeyListener.stop up to the joins: nothing when the listener is not
\* running (`stop` and `again` only remember that the call was made); else
\* the flag is cleared and every device of _devices is closed, which also
\* gives up its grab
stop_begin ==
    /\ listener.pc = "idle"
    /\ IF ~listener.running
       THEN /\ listener' = [listener EXCEPT
                                !.stop = IF @ = None THEN "noop" ELSE @,
                                !.again = listener.stop \in {"stopped", "abandoned"}]
            /\ UNCHANGED <<fd, grabbed>>
       ELSE /\ listener' = [listener EXCEPT !.running = FALSE, !.pc = "joining"]
            /\ fd' = [d \in Devices |-> IF d \in listener.devices THEN "closed" ELSE fd[d]]
            /\ grabbed' = [d \in Devices |-> IF d \in listener.devices THEN FALSE ELSE grabbed[d]]
    /\ UNCHANGED <<delivered, forwarded, kind, uinput, reader>>
    /\ UNCHANGED <<edgeVars, daemonVars, recorderVars, threadVars>>
    /\ UNCHANGED <<cleaned, call>>

\* HotkeyListener.stop from the joins on: thread.join(timeout=1) returns
\* when the thread has ended or, timeout, after one second; then every
\* UInput is closed and the lists and the debounce flag are reset; `stop`
\* remembers whether a join gave up on a live thread
stop_end(timeout) ==
    /\ listener.pc = "joining"
    /\ timeout \/ \A d \in listener.threads : ReaderEnded(d)
    /\ uinput' = [d \in Devices |-> IF d \in listener.uinputs THEN "closed" ELSE uinput[d]]
    /\ listener' = [running |-> FALSE, devices |-> {}, uinputs |-> {},
                    threads |-> {}, pc |-> "idle", last |-> listener.last,
                    stop |-> IF \A d \in listener.threads : ReaderEnded(d)
                             THEN "stopped" ELSE "abandoned",
                    again |-> FALSE]
    /\ pressed' = FALSE
    /\ UNCHANGED <<delivered, forwarded, kind, fd, grabbed, reader>>
    /\ UNCHANGED <<nPress, nRelease, pressSince, rawSince>>
    /\ UNCHANGED <<daemonVars, recorderVars, threadVars>>
    /\ UNCHANGED <<cleaned, call>>

\* _handle_device as the daemon sees it: a trigger event that passes the
\* debounce and starts a callback thread
trigger_edge(v) ==
    /\ Dispatches(v, pressed)
    /\ trigger_branch(v)
    /\ UNCHANGED <<deviceVars, daemonVars, recorderVars, pipe, run>>
    /\ UNCHANGED <<cleaned, call>>

\* ------------------------------------------------------------- audio.py
\* AudioRecorder._audio_callback
audio_callback(b) ==
    /\ recording
    /\ Len(buffer) < MaxBlocks
    /\ buffer' = Append(buffer, b)
    /\ UNCHANGED <<deviceVars, edgeVars, daemonVars, threadVars, recording, stream>>
    /\ UNCHANGED <<cleaned, call>>

\* a stop_recording without its first test
stop_recordingUnguarded(rec, buf, st) == <<Flatten(buf), FALSE, <<>>, "none">>
\* AudioRecorder.get_audio_numpy / stop_recording, as the tuple <<samples
\* returned, _recording afterwards, _audio_buffer afterwards, _stream
\* afterwards>>
stop_recording(rec, buf, st) ==
    IF ~rec THEN <<<<>>, rec, buf, st>> ELSE <<Flatten(buf), FALSE, <<>>, "none">>

\* ------------------------------------------------------------ widget.py
\* RecordingWidget.set_state: the message shown for a daemon state
StateMessage(s) ==
    CASE s = IDLE -> "hidden"
      [] s = RECORDING -> "Recording"
      [] s = PROCESSING -> "Processing..."
      [] OTHER -> "Error"

\* ------------------------------------------------------------ daemon.py
\* _set_state: the assignment to _state and the widget update
set_state(s) ==
    /\ state' = s
    /\ hist' = IF s = state THEN hist ELSE Append(hist, s)
    /\ widget' = StateMessage(s)

\* _show_error: ERROR, then the message
show_error(m) ==
    /\ state' = ERROR
    /\ hist' = IF state = ERROR THEN hist ELSE Append(hist, ERROR)
    /\ widget' = m

\* a press guard that only refuses a press during a recording
PressGuardNotRecording(s) == s # RECORDING
\* the guard of _on_hotkey_press
PressGuard(s) == s = IDLE
\* a release guard that only refuses a release when nothing is going on
ReleaseGuardNotIdle(s) == s # IDLE
\* the guard of _on_hotkey_release
ReleaseGuard(s) == s = RECORDING

\* a with block that is left with the lock still taken
AfterWithHeld == "press"
\* the lock once a handler has left its `with self._lock:` block
AfterWith == Free

\* _on_hotkey_press: `with self._lock:` and the guard
on_hotkey_press_lock ==
    /\ BagIn("start", press)
    /\ lock = Free
    /\ lock' = "press"
    /\ press' = Step(press, "start", IF PressGuard(state) THEN "locked" ELSE "dropped")
    /\ UNCHANGED <<deviceVars, edgeVars, state, hist, widget, recorderVars, release, pipe, run>>
    /\ UNCHANGED <<cleaned, call>>

\* _on_hotkey_press: the `return` of a failed guard leaves the with block
on_hotkey_press_return ==
    /\ BagIn("dropped", press)
    /\ lock' = Free
    /\ press' = Exit(press, "dropped")
    /\ UNCHANGED <<deviceVars, edgeVars, state, hist, widget, recorderVars, release, pipe, run>>
    /\ UNCHANGED <<cleaned, call>>

\* _on_hotkey_press: _set_state(RECORDING) and the end of the with block
on_hotkey_press_set ==
    /\ BagIn("locked", press)
    /\ state' = RECORDING
    /\ hist' = <<state, RECORDING>>
    /\ widget' = StateMessage(RECORDING)
    /\ run' = NoRun
    /\ lock' = AfterWith
    /\ press' = Step(press, "locked", "start_recording")
    /\ UNCHANGED <<deviceVars, edgeVars, recorderVars, release, pipe>>
    /\ UNCHANGED <<cleaned, call>>

\* _on_hotkey_press: self._recorder.start_recording(); ok tells whether the
\* audio stream can be opened. When sd.InputStream(...) raises, _stream
\* keeps its value; when stream.start() raises, _stream is the new stream,
\* never started. A failure is followed by _set_state(ERROR)
on_hotkey_press_start(ok) ==
    /\ BagIn("start_recording", press)
    /\ IF recording
       THEN /\ press' = Exit(press, "start_recording")
            /\ UNCHANGED <<daemonVars, recorderVars>>
       ELSE /\ buffer' = <<>>
            /\ IF ok
               THEN /\ recording' = TRUE
                    /\ stream' = "open"
                    /\ press' = Exit(press, "start_recording")
                    /\ UNCHANGED daemonVars
               ELSE /\ \E s \in {stream, "unstarted"} : stream' = s
                    /\ set_state(ERROR)
                    /\ press' = Step(press, "start_recording", "error_sleep")
                    /\ UNCHANGED <<lock, recording>>
    /\ UNCHANGED <<deviceVars, edgeVars, release, pipe, run>>
    /\ UNCHANGED <<cleaned, call>>

\* _on_hotkey_press: time.sleep(1); _set_state(IDLE)
on_hotkey_press_revert ==
    /\ BagIn("error_sleep", press)
    /\ set_state(IDLE)
    /\ press' = Exit(press, "error_sleep")
    /\ UNCHANGED <<deviceVars, edgeVars, lock, recorderVars, release, pipe, run>>
    /\ UNCHANGED <<cleaned, call>>

\* _on_hotkey_release: `with self._lock:` and the guard
on_hotkey_release_lock ==
    /\ BagIn("start", release)
    /\ lock = Free
    /\ lock' = "release"
    /\ release' = Step(release, "start", IF ReleaseGuard(state) THEN "locked" ELSE "dropped")
    /\ UNCHANGED <<deviceVars, edgeVars, state, hist, widget, recorderVars, press, pipe, run>>
    /\ UNCHANGED <<cleaned, call>>

\* _on_hotkey_release: the `return` of a failed guard leaves the with block
on_hotkey_release_return ==
    /\ BagIn("dropped", release)
    /\ lock' = Free
    /\ release' = Exit(release, "dropped")
    /\ UNCHANGED <<deviceVars, edgeVars, state, hist, widget, recorderVars, press, pipe, run>>
    /\ UNCHANGED <<cleaned, call>>

\* _on_hotkey_release: _set_state(PROCESSING), the end of the with block
\* and threading.Thread(target=self._process_recording).start()
on_hotkey_release_set ==
    /\ BagIn("locked", release)
    /\ set_state(PROCESSING)
    /\ lock' = AfterWith
    /\ release' = Exit(release, "locked")
    /\ pipe' = Spawn(pipe, NewPipe)
    /\ UNCHANGED <<deviceVars, edgeVars, recorderVars, press, run>>
    /\ UNCHANGED <<cleaned, call>>

\* a test that takes no text for blank
IsBlankNever(text) == FALSE
\* `not text or not text.strip()`
IsBlank(text) == text = <<>> \/ Strip(text) = <<>>

\* the run with locals p leaves its try block having done what rec says;
\* its locals are dead from here on
leave_try(p, rec) ==
    /\ run' = [rec EXCEPT !.audio = p.audio]
    /\ pipe' = Step(pipe, p, [NewPipe EXCEPT !.pc = "finally"])

\* _process_recording: audio = self._recorder.get_audio_numpy(), then
\* audio = trim_silence(audio) and is_silent decide where the run goes
process_recording_fetch(p) ==
    /\ p.pc = "fetch"
    /\ LET r == stop_recording(recording, buffer, stream)
           audio == r[1]
       IN /\ recording' = r[2]
          /\ buffer' = r[3]
          /\ stream' = r[4]
          /\ pipe' = IF Len(audio) = 0
                     THEN Step(pipe, p, [p EXCEPT !.audio = audio, !.pc = "set_idle"])
                     ELSE Step(pipe, p,
                               [p EXCEPT !.audio = trim_silence(audio),
                                         !.pc = IF is_silent(trim_silence(audio))
                                                THEN "set_idle"
                                                ELSE "transcribe"])
    /\ UNCHANGED <<deviceVars, edgeVars, daemonVars, press, release, run>>
    /\ UNCHANGED <<cleaned, call>>

\* _process_recording: the silent _set_state(IDLE); return
process_recording_set_idle(p) ==
    /\ p.pc = "set_idle"
    /\ set_state(IDLE)
    /\ leave_try(p, [NoRun EXCEPT !.wrote = <<IDLE>>])
    /\ UNCHANGED <<deviceVars, edgeVars, lock, recorderVars, press, release>>
    /\ UNCHANGED <<cleaned, call>>

\* _process_recording: one pass of `for attempt in range(2)` around
\* transcribe_audio, with the handlers an exception or a blank text
\* reaches; r is what this call of transcribe_audio returns or raises
process_recording_transcribe(p, r) ==
    /\ p.pc = "transcribe"
    /\ p.attempt < DaemonAttempts
    /\ \E x \in transcribe_audio(to_wav_bytes(p.audio)) : r = Seen(x)
    /\ LET results == Append(p.results, r)
       IN IF ~r.ok
          THEN IF p.attempt = 0 /\ IsRateLimited(r.words)
               THEN /\ pipe' = Step(pipe, p, [p EXCEPT !.results = results,
                                                       !.attempt = 1])
                    /\ UNCHANGED <<daemonVars, run>>
               ELSE /\ show_error(ErrorMessage(r.words))
                    /\ leave_try(p, [NoRun EXCEPT !.results = results,
                                                  !.wrote = <<ERROR>>])
                    /\ UNCHANGED lock
          ELSE IF IsBlank(r.text)
               THEN /\ set_state(IDLE)
                    /\ leave_try(p, [NoRun EXCEPT !.results = results,
                                                  !.wrote = <<IDLE>>])
                    /\ UNCHANGED lock
               ELSE /\ pipe' = Step(pipe, p, [p EXCEPT !.results = results,
                                                       !.pc = "format"])
                    /\ UNCHANGED <<daemonVars, run>>
    /\ UNCHANGED <<deviceVars, edgeVars, recorderVars, press, release>>
    /\ UNCHANGED <<cleaned, call>>

\* _process_recording: format_text, on_transcription, inject_text and the
\* state write that ends the try block; f is what the formatting service
\* would answer, obs what the on_transcription callback does (its
\* exception is passed over), inj what the injector does
process_recording_format(p, f, obs, inj) ==
    /\ p.pc = "format"
    /\ LET text == p.results[Len(p.results)].text
           r == format_text(text, f)
           formatted_text == IF r.kind = "ok" THEN r.text ELSE text
           asked == [NoRun EXCEPT !.results = p.results, !.fmt = f]
           injecting == [asked EXCEPT !.notified = <<formatted_text>>,
                                      !.obs = obs,
                                      !.inj = inj,
                                      !.injected = <<Append(formatted_text, " ")>>]
       IN IF r.kind = "Exception"
          THEN /\ show_error("Error")
               /\ leave_try(p, [asked EXCEPT !.wrote = <<ERROR>>])
          ELSE IF inj = "ok"
          THEN /\ set_state(IDLE)
               /\ leave_try(p, [injecting EXCEPT !.wrote = <<IDLE>>])
          ELSE /\ show_error(IF inj = "InjectorError" THEN "Injection failed" ELSE "Error")
               /\ leave_try(p, [injecting EXCEPT !.wrote = <<ERROR>>])
    /\ UNCHANGED <<deviceVars, edgeVars, lock, recorderVars, press, release>>
    /\ UNCHANGED <<cleaned, call>>

\* a finally block that never finds an error on show
ErrorOnShowNever(s) == FALSE
\* `if self._state == DaemonState.ERROR` of the finally block
ErrorOnShow(s) == s = ERROR

\* _process_recording: `finally: if self._state == DaemonState.ERROR`;
\* the thread ends here unless there is an error on show
process_recording_finally(p) ==
    /\ p.pc = "finally"
    /\ pipe' = IF ErrorOnShow(state)
               THEN Step(pipe, p, [p EXCEPT !.pc = "error_sleep"])
               ELSE Exit(pipe, p)
    /\ UNCHANGED <<deviceVars, edgeVars, daemonVars, recorderVars, press, release, run>>
    /\ UNCHANGED <<cleaned, call>>

\* _process_recording: time.sleep(1.5); _set_state(IDLE); the thread ends
process_recording_revert(p) ==
    /\ p.pc = "error_sleep"
    /\ set_state(IDLE)
    /\ pipe' = Exit(pipe, p)
    /\ UNCHANGED <<deviceVars, edgeVars, lock, recorderVars, press, release, run>>
    /\ UNCHANGED <<cleaned, call>>

\* ------------------------------------------------------- specifications
\* the live pipeline threads
Pipelines == BagToSet(pipe)

\* the steps of the handler and pipeline threads and of the audio stream
\* while the audio device works
HealthyStep ==
    \/ \E b \in BlockKinds : audio_callback(b)
    \/ on_hotkey_press_lock
    \/ on_hotkey_press_return
    \/ on_hotkey_press_set
    \/ on_hotkey_press_start(TRUE)
    \/ on_hotkey_release_lock
    \/ on_hotkey_release_return
    \/ on_hotkey_release_set
    \/ \E p \in Pipelines : process_recording_fetch(p)
    \/ \E p \in Pipelines : process_recording_set_idle(p)
    \/ \E p \in Pipelines, r \in CallResults : process_recording_transcribe(p, r)
    \/ \E p \in Pipelines, f \in FormatOutcomes, obs \in ObserverOutcomes,
             inj \in InjectOutcomes :
          process_recording_format(p, f, obs, inj)
    \/ \E p \in Pipelines : process_recording_finally(p)
    \/ \E p \in Pipelines : process_recording_revert(p)

\* DaemonProcess._cleanup once self._hotkey_listener.stop() has returned:
\* the recorder is stopped if it records, the widget thread is stopped and
\* _set_state(IDLE) is called, without the lock
cleanup ==
    /\ ~cleaned
    /\ listener.pc = "idle"
    /\ listener.stop \in {"stopped", "abandoned"}
    /\ LET r == stop_recording(recording, buffer, stream)
       IN /\ recording' = r[2]
          /\ buffer' = r[3]
          /\ stream' = r[4]
    /\ set_state(IDLE)
    /\ cleaned' = TRUE
    /\ UNCHANGED <<deviceVars, edgeVars, lock, threadVars, call>>

\* one call of transcribe_audio from its first statement to its return or
\* its raise
transcribe_call ==
    /\ call.pc = "called"
    /\ call' = [call EXCEPT !.pc = "returned",
                            !.result = transcribe_audio_on(call.wav, call.outs)]
    /\ UNCHANGED <<deviceVars, edgeVars, daemonVars, recorderVars, threadVars, cleaned>>

\* the steps a failing audio device adds
RecorderFault ==
    \/ on_hotkey_press_start(FALSE)
    \/ on_hotkey_press_revert

\* the daemon under every interleaving of edges, handlers and pipelines
Next ==
    \/ \E v \in {0, 1} : trigger_edge(v)
    \/ HealthyStep
    \/ RecorderFault

Spec == Init /\ [][Next]_vars

\* a trigger edge as in trigger_edge, with room for one press more
late_edge(v) ==
    /\ Dispatches(v, pressed)
    /\ trigger_branch_upto(v, MaxCycles + 1)
    /\ UNCHANGED <<deviceVars, daemonVars, recorderVars, pipe, run>>
    /\ UNCHANGED <<cleaned, call>>

\* the transcribe_audio failures that the daemon does not retry
Failures == {r \in CallResults : ~r.ok /\ ~IsRateLimited(r.words)}

\* the daemon when speech is always audible and the transcription service
\* is down, under every interleaving of edges, handlers and pipelines
NextDown ==
    \/ \E v \in {0, 1} : late_edge(v)
    \/ audio_callback(LoudBlock)
    \/ on_hotkey_press_lock
    \/ on_hotkey_press_return
    \/ on_hotkey_press_set
    \/ \E ok \in BOOLEAN : on_hotkey_press_start(ok)
    \/ on_hotkey_press_revert
    \/ on_hotkey_release_lock
    \/ on_hotkey_release_return
    \/ on_hotkey_release_set
    \/ \E p \in Pipelines : process_recording_fetch(p)
    \/ \E p \in Pipelines : process_recording_set_idle(p)
    \/ \E p \in Pipelines, r \in Failures : process_recording_transcribe(p, r)
    \/ \E p \in Pipelines : process_recording_finally(p)
    \/ \E p \in Pipelines : process_recording_revert(p)

\* every started thread gets to run: each step of a press handler, of a
\* release handler and of a pipeline thread is taken once it stays
\* possible. Nothing is asked of the keyboard or of the audio stream.
FairnessDown ==
    /\ WF_vars(on_hotkey_press_lock)
    /\ WF_vars(on_hotkey_press_return)
    /\ WF_vars(on_hotkey_press_set)
    /\ WF_vars(\E ok \in BOOLEAN : on_hotkey_press_start(ok))
    /\ WF_vars(on_hotkey_press_revert)
    /\ WF_vars(on_hotkey_release_lock)
    /\ WF_vars(on_hotkey_release_return)
    /\ WF_vars(on_hotkey_release_set)
    /\ WF_vars(\E p \in Pipelines : process_recording_fetch(p))
    /\ WF_vars(\E p \in Pipelines : process_recording_set_idle(p))
    /\ WF_vars(\E p \in Pipelines, r \in Failures : process_recording_transcribe(p, r))
    /\ WF_vars(\E p \in Pipelines : process_recording_finally(p))
    /\ WF_vars(\E p \in Pipelines : process_recording_revert(p))

SpecDown == Init /\ [][NextDown]_vars /\ FairnessDown

\* no handler or pipeline thread is alive
Quiescent ==
    /\ press = EmptyBag
    /\ release = EmptyBag
    /\ pipe = EmptyBag

\* one dictation at a time: the audio device works and the key is pressed
\* again only after the threads of the previous dictation have ended
NextCycle ==
    \/ Quiescent /\ trigger_edge(1)
    \/ trigger_edge(0)
    \/ HealthyStep

SpecCycle == Init /\ [][NextCycle]_vars

\* every started thread gets to run, whatever its collaborators answer:
\* each step of a press handler, of a release handler and of a pipeline
\* thread is taken once it stays possible. Nothing is asked of the
\* keyboard or of the audio stream.
FairnessThreads ==
    /\ WF_vars(on_hotkey_press_lock)
    /\ WF_vars(on_hotkey_press_return)
    /\ WF_vars(on_hotkey_press_set)
    /\ WF_vars(on_hotkey_press_start(TRUE))
    /\ WF_vars(on_hotkey_release_lock)
    /\ WF_vars(on_hotkey_release_return)
    /\ WF_vars(on_hotkey_release_set)
    /\ WF_vars(\E p \in Pipelines : process_recording_fetch(p))
    /\ WF_vars(\E p \in Pipelines : process_recording_set_idle(p))
    /\ WF_vars(\E p \in Pipelines, r \in CallResults :
                    process_recording_transcribe(p, r))
    /\ WF_vars(\E p \in Pipelines, f \in FormatOutcomes,
                    obs \in ObserverOutcomes, inj \in InjectOutcomes :
                    process_recording_format(p, f, obs, inj))
    /\ WF_vars(\E p \in Pipelines : process_recording_finally(p))
    /\ WF_vars(\E p \in Pipelines : process_recording_revert(p))

\* one dictation at a time, every thread getting to run
SpecCycleFair == Init /\ [][NextCycle]_vars /\ FairnessThreads

\* the listener alone: the reader loops of the grabbed keyboards
NextListener ==
    \/ \E d \in Devices, e \in RawEvents, ok \in BOOLEAN : handle_device(d, e, ok)
    \/ \E d \in Devices : reader_error(d)

SpecListener == Init /\ [][NextListener]_vars

\* the reader loops together with the threads they start, when speech is
\* always audible, the transcription service is down, the uinput devices
\* take every write and the trigger is pressed again only after the
\* handlers of the previous dictation have returned
NextBusy ==
    \/ \E d \in Devices, e \in RawEvents :
          /\ (IsTrigger(e) /\ e.value = 1) =>
                (press = EmptyBag /\ release = EmptyBag)
          /\ handle_device(d, e, TRUE)
    \/ audio_callback(LoudBlock)
    \/ on_hotkey_press_lock
    \/ on_hotkey_press_return
    \/ on_hotkey_press_set
    \/ \E ok \in BOOLEAN : on_hotkey_press_start(ok)
    \/ on_hotkey_press_revert
    \/ on_hotkey_release_lock
    \/ on_hotkey_release_return
    \/ on_hotkey_release_set
    \/ \E p \in Pipelines : process_recording_fetch(p)
    \/ \E p \in Pipelines : process_recording_set_idle(p)
    \/ \E p \in Pipelines, r \in Failures : process_recording_transcribe(p, r)
    \/ \E p \in Pipelines : process_recording_finally(p)
    \/ \E p \in Pipelines : process_recording_revert(p)

SpecBusy == Init /\ [][NextBusy]_vars

\* the shutdown of a running daemon: the trigger key of the grabbed
\* keyboards, the threads its edges start, and _cleanup on the main thread
\* (listener.stop(), then the rest), when the audio device works, speech is
\* always audible and the transcription service is down
NextShutdown ==
    \/ \E d \in Devices, e \in {x \in RawEvents : IsTrigger(x)} :
          handle_device(d, e, TRUE)
    \/ \E d \in Devices : reader_exit(d)
    \/ stop_begin
    \/ \E timeout \in BOOLEAN : stop_end(timeout)
    \/ cleanup
    \/ audio_callback(LoudBlock)
    \/ on_hotkey_press_lock
    \/ on_hotkey_press_return
    \/ on_hotkey_press_set
    \/ on_hotkey_press_start(TRUE)
    \/ on_hotkey_release_lock
    \/ on_hotkey_release_return
    \/ on_hotkey_release_set
    \/ \E p \in Pipelines : process_recording_fetch(p)
    \/ \E p \in Pipelines : process_recording_set_idle(p)
    \/ \E p \in Pipelines, r \in Failures : process_recording_transcribe(p, r)
    \/ \E p \in Pipelines : process_recording_finally(p)
    \/ \E p \in Pipelines : process_recording_revert(p)

SpecShutdown == Init /\ [][NextShutdown]_vars

\* transcribe_audio on its own
NextCall == transcribe_call

SpecCall == InitCall /\ [][NextCall]_vars

\* the life of the listener, from its construction on any set of input
\* devices: start(), the reader threads, stop()
NextLifecycle ==
    \/ \E created \in SUBSET Devices : start(created)
    \/ \E d \in Devices, ok \in BOOLEAN : reader_grab(d, ok)
    \/ \E d \in Devices, e \in RawEvents, ok \in BOOLEAN : handle_device(d, e, ok)
    \/ \E d \in Devices : reader_exit(d)
    \/ stop_begin
    \/ \E timeout \in BOOLEAN : stop_end(timeout)

SpecLifecycle == InitBoot /\ [][NextLifecycle]_vars

TypeOK ==
    /\ pressed \in BOOLEAN
    /\ state \in DaemonState
    /\ lock \in {Free, "press", "release"}
    /\ nPress \in 0..MaxCycles
    /\ nRelease \in 0..nPress
    /\ recording \in BOOLEAN
    /\ stream \in {"none", "open", "unstarted"}
    /\ cleaned \in BOOLEAN
    /\ call.pc \in {"none", "called", "returned"}
    /\ Len(buffer) <= MaxBlocks
    /\ IsABag(press) /\ IsABag(release) /\ IsABag(pipe)
    /\ BagCardinality(press) <= nPress
    /\ BagCardinality(release) <= nRelease
    /\ BagCardinality(pipe) <= nRelease

\* ---------------------------------------------------------------- claims
TriggerPress == [type |-> EV_KEY, code |-> KEY_CAPSLOCK, value |-> 1]
TriggerRelease == [type |-> EV_KEY, code |-> KEY_CAPSLOCK, value |-> 0]

\* the pipeline runs that have been launched and have not yet written the
\* state that ends their work
InFlight ==
    [p \in {q \in Pipelines : q.pc \in {"fetch", "set_idle", "transcribe", "format"}}
        |-> pipe[p]]

\* where the live pipeline threads are
PipePcs == {p.pc : p \in Pipelines}

\* the audio is empty, or its speech lasts less than 0.3 s
SilentAudio(audio) ==
    \/ Len(audio) = 0
    \/ 10 * Cardinality({i \in 1..Len(audio) : Abs(audio[i]) > Threshold}) < 3 * SampleRate

\* a pipeline run has left its try block since the last accepted press
Ended == run.wrote # <<>>

\* the first transcribe_audio call of the run raised an authentication error
AuthFailed ==
    /\ Len(run.results) >= 1
    /\ ~run.results[1].ok
    /\ run.results[1].words = AuthenticationError.words

\* the first transcribe_audio call was rate limited and the retry returned
\* a text that is not blank
RetrySucceeded ==
    /\ Len(run.results) = 2
    /\ ~run.results[1].ok
    /\ "rate" \in run.results[1].words
    /\ run.results[2].ok
    /\ ~IsBlank(run.results[2].text)

\* the run got a transcript that is not blank
Transcribed ==
    /\ run.results # <<>>
    /\ run.results[Len(run.results)].ok
    /\ ~IsBlank(run.results[Len(run.results)].text)

Transcript == run.results[Len(run.results)].text

\* C1: a press handler that finds the daemon state different from Idle is a
\* no-op: whatever the state (Recording, Processing or Error) it takes the
\* return branch, and neither its guard step nor its return changes the
\* daemon state or the recorder.
C1_PressDropped ==
    [][/\ (CopiesIn("start", press') < CopiesIn("start", press) /\ state # IDLE) =>
             /\ press' = Step(press, "start", "dropped")
             /\ state' = state
             /\ UNCHANGED recorderVars
       /\ CopiesIn("dropped", press') < CopiesIn("dropped", press) =>
             /\ press' = Exit(press, "dropped")
             /\ state' = state
             /\ UNCHANGED recorderVars]_vars

\* a press handler has been refused while a pipeline run is transcribing
C1_Witness ==
    /\ BagIn("dropped", press)
    /\ state = PROCESSING
    /\ "transcribe" \in PipePcs

\* C2: a release handler that finds the daemon state different from
\* Recording is a no-op: whatever the state (Idle, Processing or Error) it
\* takes the return branch, changes no state and launches no pipeline thread.
C2_ReleaseDropped ==
    [][/\ (CopiesIn("start", release') < CopiesIn("start", release)
              /\ state # RECORDING) =>
             /\ release' = Step(release, "start", "dropped")
             /\ state' = state
             /\ pipe' = pipe
       /\ CopiesIn("dropped", release') < CopiesIn("dropped", release) =>
             /\ release' = Exit(release, "dropped")
             /\ state' = state
             /\ pipe' = pipe]_vars

\* a release handler has been refused while the daemon is Idle
C2_Witness == BagIn("dropped", release) /\ state = IDLE

\* C3: a press callback is dispatched only by a raw press read while the
\* debounced flag is clear, a release callback only by a raw release read
\* while it is set, and the raw presses and repeats read since the last raw
\* release have dispatched exactly one press callback.
C3_Debounce ==
    [][/\ nPress' # nPress =>
             /\ nPress' = nPress + 1
             /\ ~pressed /\ pressed'
             /\ \E d \in Devices : handle_device(d, TriggerPress, TRUE)
       /\ nRelease' # nRelease =>
             /\ nRelease' = nRelease + 1
             /\ pressed /\ ~pressed'
             /\ \E d \in Devices : handle_device(d, TriggerRelease, TRUE)
       /\ pressSince' <= 1
       /\ rawSince' >= 1 => pressSince' = 1]_vars

\* three raw presses in a row have been read and one callback dispatched
C3_Witness == rawSince >= 3 /\ pressSince = 1 /\ nPress = 1

\* C4: at most one pipeline run is in flight at any time, and no press is
\* accepted while a pipeline run is in flight.
C4_OneEpisode ==
    /\ [](BagCardinality(InFlight) <= 1)
    /\ [][CopiesIn("locked", press') > CopiesIn("locked", press) =>
             InFlight = EmptyBag]_vars

\* C5: every change of the daemon state is one of Idle to Recording,
\* Recording to Processing, Processing to Idle, Processing to Error, Error
\* to Idle, or Recording to Error.
ListedTransitions ==
    {<<IDLE, RECORDING>>, <<RECORDING, PROCESSING>>, <<PROCESSING, IDLE>>,
     <<PROCESSING, ERROR>>, <<ERROR, IDLE>>, <<RECORDING, ERROR>>}

C5_ListedTransitions ==
    [][state' # state => <<state, state'>> \in ListedTransitions]_vars

\* C6: a run with audio that is not silent, whose transcription returns a
\* text that is not blank, whose formatting request is answered with a
\* formatted text and whose injection works, passes exactly the formatted
\* text plus one space to the injector, once, and the daemon state goes
\* Idle, Recording, Processing, Idle.
C6_FormattedInjected ==
    (/\ Ended
     /\ ~SilentAudio(run.audio)
     /\ Transcribed
     /\ run.fmt.kind = "ok"
     /\ run.inj \in {None, "ok"}) =>
        /\ run.injected = <<Append(run.fmt.text, " ")>>
        /\ hist = <<IDLE, RECORDING, PROCESSING, IDLE>>

\* C7: a run whose transcription returns a text that is not blank and whose
\* formatting call fails, in whatever way, passes the raw transcript plus
\* one space to the injector and does not enter Error.
C7_FormatFallback ==
    (/\ Ended
     /\ Transcribed
     /\ run.fmt # NoFormat
     /\ format_text(Transcript, run.fmt).kind # "ok"
     /\ run.inj \in {None, "ok"}) =>
        /\ run.injected = <<Append(Transcript, " ")>>
        /\ run.wrote = <<IDLE>>

\* C8: audio that is empty or all silent never reaches transcription, and
\* the run that fetched it calls neither transcription nor formatting nor
\* the observer nor the injector, never writes Error, and its one state
\* write is Idle.
C8_SilentToIdle ==
    /\ \A p \in Pipelines :
          p.pc \in {"transcribe", "format"} => ~SilentAudio(p.audio)
    /\ (Ended /\ SilentAudio(run.audio)) =>
          /\ run.results = <<>>
          /\ run.fmt = NoFormat
          /\ run.notified = <<>>
          /\ run.injected = <<>>
          /\ run.wrote = <<IDLE>>

\* a run has ended in Idle on audio that is not empty but too short
C8_Witness ==
    /\ Ended
    /\ run.audio # <<>>
    /\ AboveThreshold(run.audio) # {}
    /\ SilentAudio(run.audio)
    /\ run.wrote = <<IDLE>>
    /\ state = IDLE

\* C9: when the transcription call raises an authentication error, the
\* daemon state goes Idle, Recording, Processing, Error with the message
\* "Invalid API key"; the run then sleeps and writes Idle, which is the
\* next value of the state; there is no second transcription call and the
\* injector is never called.
C9_AuthError ==
    /\ [](AuthFailed =>
            /\ Len(run.results) = 1
            /\ run.injected = <<>>
            /\ run.wrote = <<ERROR>>
            /\ IF PipePcs # {}
               THEN /\ state = ERROR
                    /\ widget = "Invalid API key"
                    /\ hist = <<IDLE, RECORDING, PROCESSING, ERROR>>
               ELSE /\ state = IDLE
                    /\ hist = <<IDLE, RECORDING, PROCESSING, ERROR, IDLE>>)
    /\ [][(AuthFailed /\ PipePcs = {"finally"} /\ pipe' # pipe) =>
              PipePcs' = {"error_sleep"}]_vars

\* a run that failed to authenticate is asleep with its error on show
C9_Witness ==
    /\ AuthFailed
    /\ PipePcs = {"error_sleep"}
    /\ widget = "Invalid API key"

\* C10: when the first transcription call is rate limited and the retry
\* returns a text, then (the formatting service answering or refusing, the
\* injector working) the text is injected and the run never writes Error.
C10_RetryThenInject ==
    (/\ Ended
     /\ RetrySucceeded
     /\ run.fmt.kind \in {"ok", "GroqClientError"}
     /\ run.inj \in {None, "ok"}) =>
        /\ Len(run.injected) = 1
        /\ run.wrote = <<IDLE>>

\* the transcribe_audio calls rs of one run: at most two, the second only
\* after a first that failed with a text containing "rate"
RetriedOnlyOnRate(rs) ==
    /\ Len(rs) <= 2
    /\ Len(rs) = 2 => (~rs[1].ok /\ "rate" \in rs[1].words)

\* C11: a run calls transcribe_audio at most twice, the second time only
\* when the first call failed with a rate-limit-classified error; any other
\* failure of the first call and any failure of the second call goes to
\* the error handling (Error is written, nothing is formatted or injected)
\* with no further call.
C11_AtMostOneRetry ==
    /\ \A p \in Pipelines :
          /\ RetriedOnlyOnRate(p.results)
          /\ (p.pc = "transcribe" /\ p.results # <<>>) =>
                (Len(p.results) = 1 /\ ~p.results[1].ok
                    /\ "rate" \in p.results[1].words)
    /\ RetriedOnlyOnRate(run.results)
    /\ (run.results # <<>> /\ ~run.results[Len(run.results)].ok) =>
          /\ run.wrote = <<ERROR>>
          /\ run.fmt = NoFormat
          /\ run.injected = <<>>

\* a run has ended in Error on the failure of its second call
C11_Witness ==
    /\ Len(run.results) = 2
    /\ ~run.results[2].ok
    /\ run.wrote = <<ERROR>>

\* the events of keyboard d that its virtual device has taken, without the
\* reports the listener adds itself with uinput.syn()
Written(d) == SelectSeq(forwarded[d], LAMBDA x : x # SynReport)

\* C12: every non-trigger event a reader loop reads is written to the
\* virtual device of its keyboard, after the events read before it: none is
\* dropped, duplicated or reordered.
C12_ForwardedInOrder ==
    [][\A d \in Devices, e \in RawEvents :
          (~IsTrigger(e) /\ \E ok \in BOOLEAN : handle_device(d, e, ok)) =>
              Written(d)' = Append(Written(d), e)]_vars

\* C13: no trigger-key event, press, release or repeat, is ever written to
\* a virtual output device.
C13_TriggerNeverForwarded ==
    \A d \in Devices : \A i \in 1..Len(forwarded[d]) :
        ~(forwarded[d][i].type = EV_KEY /\ forwarded[d][i].code = KEY_CAPSLOCK)

\* a reader loop has handled trigger events, one of them a press that was
\* dispatched, and has forwarded another event
C13_Witness ==
    /\ pressed
    /\ \E d \in Devices : forwarded[d] # <<>> /\ delivered[d] >= 2

\* a stop() that found the listener running has returned
StopReturned == listener.pc = "idle" /\ listener.stop \in {"stopped", "abandoned"}

\* C14 as stated: after stop() returns no device is grabbed, every reader
\* thread has exited and every virtual output device is destroyed.
C14_StopReleasesAll ==
    StopReturned =>
        \A d \in Devices :
            /\ ~grabbed[d]
            /\ ReaderEnded(d)
            /\ uinput[d] # "open"

\* C14, amended: after stop() returns no device is grabbed and every
\* virtual output device is destroyed, whatever the reader loops were
\* doing; every reader thread has exited unless a join timed out, and a
\* thread that is left alive has lost its device.
C14_StopReleasesDevices ==
    StopReturned =>
        \A d \in Devices :
            /\ ~grabbed[d]
            /\ uinput[d] # "open"
            /\ listener.stop = "stopped" => ReaderEnded(d)
            /\ ~ReaderEnded(d) => fd[d] = "closed"

\* stop() has returned after a join timed out, and the reader thread it
\* gave up on is still alive
C14_Witness ==
    /\ StopReturned
    /\ listener.stop = "abandoned"
    /\ \E d \in Devices : reader[d] \in {"start", "loop"}

\* start() has raised
StartRaised == listener.last \in {"NoKeyboard", "GrabFailed"}

\* C15: stop() is idempotent and safe after a failed start(): a stop()
\* called after a stop() has returned, or after start() raised, returns at
\* once and changes nothing, and after start() raised no device is
\* grabbed, no virtual device exists and no reader thread is alive.
C15_StopIdempotent ==
    /\ [](StartRaised =>
            \A d \in Devices :
                ~grabbed[d] /\ uinput[d] # "open" /\ ReaderEnded(d))
    /\ []((StopReturned \/ StartRaised) => ~listener.running)
    /\ [][(stop_begin /\ (StopReturned \/ StartRaised)) =>
            /\ listener'.pc = "idle"
            /\ listener'.running = listener.running
            /\ listener'.devices = listener.devices
            /\ listener'.uinputs = listener.uinputs
            /\ listener'.threads = listener.threads
            /\ UNCHANGED <<delivered, forwarded, kind, fd, grabbed, uinput, reader>>
            /\ UNCHANGED <<edgeVars, daemonVars, recorderVars, threadVars>>]_vars

\* stop() has been called a second time after a stop() that found reader
\* threads to join, or after a start() that raised for want of a UInput
C15_Witness == listener.again /\ \E d \in Devices : reader[d] = "exited"

\* no input device opens and lists both the trigger key and KEY_A
NoCandidate ==
    \A d \in Devices :
        ~kind[d].readable \/ KEY_CAPSLOCK \notin kind[d].keys \/ KEY_A \notin kind[d].keys

\* C16: start() with no candidate keyboard fails with the no-device-found
\* error and leaves the listener not running, with no virtual device and
\* no reader thread created.
C16_NoDeviceFound ==
    (listener.last # None /\ NoCandidate) =>
        /\ listener.last = "NoKeyboard"
        /\ ~listener.running
        /\ listener.uinputs = {} /\ listener.threads = {}
        /\ \A d \in Devices : uinput[d] = "none" /\ reader[d] = "none" /\ ~grabbed[d]

\* start() has raised the no-device-found error on a system that has a
\* device with the trigger key and no letters
C16_Witness ==
    /\ listener.last = "NoKeyboard"
    /\ \E d \in Devices : kind[d].readable /\ kind[d].keys = {KEY_CAPSLOCK}

\* start() is over and stop() has not been called
Started == listener.last # None /\ listener.stop = None /\ listener.pc = "idle"

\* the listener has failed to take keyboard d: its UInput could not be
\* made, or its exclusive grab was refused
GrabFailedFor(d) ==
    \/ reader[d] = "grab_failed"
    \/ d \notin listener.uinputs

\* C17: when candidate devices exist and the exclusive grab fails for
\* every one of them, start() fails with the all-grabs-failed error and
\* the listener is left not running.
C17_AllGrabsFailed ==
    (Started /\ ~NoCandidate /\ \A d \in listener.devices : GrabFailedFor(d)) =>
        /\ listener.last = "GrabFailed"
        /\ ~listener.running

\* C18: after start() succeeds, a virtual output device and a reader loop
\* exist for exactly the devices that were successfully grabbed, and for
\* no device whose grab failed (looked at once every reader thread has
\* made its grab attempt, and while no reader loop has ended on an error).
C18_PairedWithGrab ==
    (Started /\ listener.last = "started"
        /\ \A d \in Devices : reader[d] \notin {"start", "exited"}) =>
        \A d \in Devices :
            /\ uinput[d] = "open" <=> grabbed[d]
            /\ reader[d] = "loop" <=> grabbed[d]

\* C19: whenever the daemon state is Error it becomes Idle again, with no
\* further input needed.
C19_ErrorRecovers == (state = ERROR) ~> (state = IDLE)

\* C20: every write to the daemon state happens while the writing thread
\* holds the daemon lock; the handlers hold it from their guard to their
\* _set_state, so a write is made under the lock only when it is that
\* step of a handler.
C20_WritesUnderLock ==
    [][state' # state =>
          \/ lock = "press" /\ on_hotkey_press_set
          \/ lock = "release" /\ on_hotkey_release_set]_vars

\* the handler threads that are inside their `with self._lock:` block
PressHolders == CopiesIn("locked", press) + CopiesIn("dropped", press)
ReleaseHolders == CopiesIn("locked", release) + CopiesIn("dropped", release)

\* C21: the daemon lock is held only across the check-and-set of a
\* transition: whenever it is taken, its holder is the one handler thread
\* that stands between its guard and its state write or return, so no
\* thread that starts the recorder, sleeps for the error display or runs
\* the pipeline holds it.
C21_LockOnlyCheckAndSet ==
    /\ lock = Free => (PressHolders = 0 /\ ReleaseHolders = 0)
    /\ lock = "press" => (PressHolders = 1 /\ ReleaseHolders = 0)
    /\ lock = "release" => (PressHolders = 0 /\ ReleaseHolders = 1)

\* a handler holds the lock while another thread sleeps for the error
\* display and a pipeline run is in progress
C21_Witness ==
    /\ lock # Free
    /\ BagIn("error_sleep", press)
    /\ \E p \in Pipelines : p.pc \in {"fetch", "transcribe", "format"}

C23_ObserverSwallowed ==
    [][\A p \in Pipelines, f \in FormatOutcomes :
          (f.kind # "Exception" /\ process_recording_format(p, f, "raises", "ok")) =>
              /\ run'.obs = "raises"
              /\ run'.injected = <<Append(run'.notified[1], " ")>>
              /\ run'.wrote = <<IDLE>>
              /\ state' = IDLE]_vars

\* C24: when starting the recorder fails after an accepted press, the
\* daemon state becomes Error, stays Error while the handler sleeps for
\* the display interval, and then becomes Idle, the state in which a new
\* press is accepted.
C24_RecorderStartFailure ==
    /\ [][(on_hotkey_press_start(FALSE) /\ ~recording) => state' = ERROR]_vars
    /\ [](BagIn("error_sleep", press) => state = ERROR)
    /\ [][on_hotkey_press_revert => (state' = IDLE /\ PressGuard(state'))]_vars

\* the text is empty or made of spaces only
OnlySpaces(text) == \A i \in 1..Len(text) : text[i] = " "

\* C25: a run whose transcript is empty or whitespace-only writes Idle and
\* nothing else: formatting, the transcription observer and the injector
\* are not called and the run does not write Error.
C25_BlankToIdle ==
    /\ \A p \in Pipelines :
          p.pc = "format" => ~OnlySpaces(p.results[Len(p.results)].text)
    /\ (/\ run.results # <<>>
        /\ run.results[Len(run.results)].ok
        /\ OnlySpaces(run.results[Len(run.results)].text)) =>
          /\ run.fmt = NoFormat
          /\ run.notified = <<>>
          /\ run.injected = <<>>
          /\ run.wrote = <<IDLE>>

\* a run on audible speech has ended in Idle on an empty transcript, with
\* no state written since but the Idle of that run
C25_Witness ==
    /\ run.results # <<>>
    /\ run.results[Len(run.results)].ok
    /\ run.results[Len(run.results)].text = <<>>
    /\ ~SilentAudio(run.audio)
    /\ hist = <<IDLE, RECORDING, PROCESSING, IDLE>>

\* C26: a failure in the reader loop of one keyboard, with the listener
\* running, ends that loop only and releases its grab: the listener keeps
\* running, and the grab, the virtual device, the reader loop and the
\* forwarded events of every other keyboard are left as they were.
C26_ReaderFailureIsolated ==
    [][\A d \in Devices :
          (reader[d] = "loop" /\ reader'[d] = "exited" /\ listener.running) =>
              /\ ~grabbed'[d]
              /\ listener' = listener
              /\ \A o \in Devices \ {d} :
                    /\ reader'[o] = reader[o]
                    /\ grabbed'[o] = grabbed[o]
                    /\ uinput'[o] = uinput[o]
                    /\ fd'[o] = fd[o]
                    /\ forwarded'[o] = forwarded[o]]_vars

\* the reader loop of one keyboard has ended on its first event, and the
\* loop of another keyboard, still holding its grab, has dispatched a
\* press and forwarded a key
C26_Witness ==
    \E d \in Devices, o \in Devices :
        /\ reader[d] = "exited" /\ delivered[d] <= 1
        /\ reader[o] = "loop" /\ grabbed[o]
        /\ forwarded[o] # <<>>
        /\ pressed
        /\ listener.running

Unopenable == \A d \in Devices : ~kind[d].readable

\* C28: when the input devices of the system cannot be opened, start()
\* fails with an error of its own, which is not the error it raises when no
\* keyboard device exists at all.
C28_PermissionError ==
    (listener.last # None /\ Unopenable) =>
        (StartRaised /\ listener.last # "NoKeyboard")

\* C29: get_audio_numpy() on a recorder that is not recording returns no
\* samples and leaves _recording, _stream and _audio_buffer as they were.
C29_StopWhenNotRecording ==
    [][\A p \in Pipelines :
          (process_recording_fetch(p) /\ ~recording) =>
              /\ pipe' = Step(pipe, p, [p EXCEPT !.audio = <<>>, !.pc = "set_idle"])
              /\ recording' = recording
              /\ stream' = stream
              /\ buffer' = buffer]_vars

\* the only press failed to start the recorder, which holds a stream that
\* never started, and the pipeline run of its release has fetched
C29_Witness ==
    /\ nPress = 1
    /\ ~recording /\ stream = "unstarted"
    /\ \E p \in Pipelines : p.pc = "set_idle" /\ p.audio = <<>>

\* C30: once listener.stop() and _cleanup have returned, no trigger edge
\* is accepted any more, and no press or release handler changes the
\* daemon state or starts the recorder; pipeline runs in flight may go on.
C30_NoEdgeAfterStop ==
    [][cleaned =>
          /\ nPress' = nPress /\ nRelease' = nRelease
          /\ (press' # press \/ release' # release) =>
                (state' = state /\ recording' = recording)]_vars

\* a pipeline run is active: a pipeline thread is inside its try block
ActiveRun == \E p \in Pipelines : p.pc \notin {"finally", "error_sleep"}

\* C31: a pipeline run is active exactly when the daemon state is
\* Processing; none is active while the state is Idle or Error.
C31_ActiveIffProcessing == ActiveRun <=> state = PROCESSING

\* a recording session is outstanding: a press has been accepted and the
\* pipeline run of its release has not fetched yet
SessionOpen == state = RECORDING \/ \E p \in Pipelines : p.pc = "fetch"

\* C32: the recording session is created on Recording entry and consumed
\* and cleared on Processing entry: a fetch leaves the recorder stopped
\* with an empty buffer, a press is accepted only with the recorder
\* stopped, and samples are captured only between an accepted press and
\* the fetch of its run, so that no run gets samples of another episode.
C32_SessionPerEpisode ==
    /\ [][\A p \in Pipelines :
             process_recording_fetch(p) => (~recording' /\ buffer' = <<>>)]_vars
    /\ [][on_hotkey_press_set => ~recording]_vars
    /\ [][(\E b \in BlockKinds : audio_callback(b)) => SessionOpen]_vars

\* the last pipeline run to leave its try block failed
FailedRun == run.wrote = <<ERROR>>

\* what made the run fail: the error of its last transcribe_audio call, or
\* something else when that call returned
FailureClass(rec) ==
    LET rs == rec.results
        last == rs[Len(rs)]
    IN IF rs = <<>> \/ last.ok THEN "other"
       ELSE IF last.words = AuthenticationError.words THEN "auth"
       ELSE IF last.words = RateLimitError.words THEN "rate-limit"
       ELSE IF last.words = APIConnectionError.words THEN "connectivity"
       ELSE "other"

\* the messages of the four categories
CategoryMessages(class) ==
    CASE class = "auth" -> {"Invalid API key"}
      [] class = "rate-limit" -> {"Rate limited"}
      [] class = "connectivity" -> {"No internet"}
      [] OTHER -> {"API error", "Error"}

\* C33: a pipeline run that fails writes Error and shows the one message of
\* the category of its failure (auth, rate-limit, connectivity, generic);
\* the message stays while the state is Error, the run goes to sleep on it
\* and the state after Error is Idle.
C33_CategoryMessage ==
    /\ [][(run' # run /\ FailedRun') =>
             /\ state' = ERROR
             /\ widget' \in CategoryMessages(FailureClass(run'))]_vars
    /\ [](FailedRun =>
             IF state = ERROR
             THEN widget \in CategoryMessages(FailureClass(run))
             ELSE /\ state = IDLE
                  /\ SubSeq(hist, Len(hist) - 1, Len(hist)) = <<ERROR, IDLE>>)
    /\ [][\A p \in Pipelines :
             /\ (process_recording_finally(p) /\ state = ERROR) =>
                   pipe' = Step(pipe, p, [p EXCEPT !.pc = "error_sleep"])
             /\ process_recording_revert(p) => state' = IDLE]_vars

\* C34: the pipeline is a single pass per release edge: a release handler
\* that passes its guard starts exactly one pipeline thread, a release
\* handler that is refused starts none, nothing else starts one, and no
\* run calls the injector more than once.
C34_SinglePass ==
    /\ [][IF BagCardinality(pipe') > BagCardinality(pipe)
           THEN /\ CopiesIn("locked", release') < CopiesIn("locked", release)
                /\ BagCardinality(pipe') = BagCardinality(pipe) + 1
                /\ CopiesIn(NewPipe, pipe') = CopiesIn(NewPipe, pipe) + 1
           ELSE ~on_hotkey_release_set]_vars
    /\ [](Len(run.injected) <= 1)

\* two release edges have been dispatched and both handlers have returned;
\* one was accepted and its pipeline run is alive, the other was refused
C34_Witness ==
    /\ nRelease = 2
    /\ press = EmptyBag /\ release = EmptyBag
    /\ BagCardinality(pipe) = 1
    /\ hist = <<IDLE, RECORDING, PROCESSING>>

\* the trigger key is up and every handler thread started by its edges has
\* returned
KeyReleased == ~pressed /\ press = EmptyBag /\ release = EmptyBag

\* C35: a press edge dispatched while the daemon is Idle, followed by its
\* release edge, takes the daemon to Processing and back to Idle however
\* the two handler threads are scheduled: once the key is up and the
\* handlers have returned, the daemon state is not Recording.
C35_NotLeftRecording == KeyReleased => state # RECORDING

\* C36: over all grabbed keyboards together the callbacks dispatched
\* alternate press, release, press, ..., beginning with a press: a press is
\* dispatched only when as many releases as presses have been, a release
\* only when one press more has been, and the debounced flag tells which.
C36_EdgesAlternate ==
    /\ [](nRelease <= nPress /\ nPress <= nRelease + 1)
    /\ [](pressed <=> nPress = nRelease + 1)
    /\ [][/\ nPress' # nPress =>
                (nPress = nRelease /\ nPress' = nPress + 1 /\ nRelease' = nRelease)
          /\ nRelease' # nRelease =>
                (nPress = nRelease + 1 /\ nRelease' = nRelease + 1 /\ nPress' = nPress)]_vars

\* each keyboard has delivered one event, and together they have made one
\* press callback and one release callback
C36_Witness ==
    /\ \A d \in Devices : delivered[d] = 1
    /\ nPress = 1 /\ nRelease = 1
    /\ BagIn("start", press) /\ BagIn("start", release)

\* C37: whenever the recorder is capturing, the daemon state is Recording,
\* or Processing with the fetch of the run still to come; in Idle, in
\* Error and in Processing after the fetch the recorder is not recording.
C37_RecordingOnlyInRecording ==
    recording =>
        \/ state = RECORDING
        \/ state = PROCESSING /\ \E p \in Pipelines : p.pc = "fetch"

\* C38: from the moment _cleanup has returned the daemon state is Idle and
\* the recorder is not recording, whatever handler or pipeline thread was
\* still alive when the daemon was stopped.
C38_IdleAfterCleanup == cleaned => (state = IDLE /\ ~recording)

\* C39: every pipeline run ends with the daemon state Idle: whenever the
\* state is Processing it becomes Idle, whatever the fetch, the
\* transcription, the formatting, the observer and the injector do.
C39_ProcessingEnds == (state = PROCESSING) ~> (state = IDLE)

\* a run whose transcription returned a text has failed after it, shown
\* its error and written Idle, and its thread has ended
C39_Witness ==
    /\ Quiescent
    /\ Transcribed
    /\ hist = <<IDLE, RECORDING, PROCESSING, ERROR, IDLE>>

\* an API outcome after which transcribe_audio tries again
Retried(o) ==
    \/ o.cls \in {"RateLimitError", "APIConnectionError"}
    \/ o.cls = "APIError" /\ ~(400 <= o.status /\ o.status <= 499)
\* an API outcome on which transcribe_audio raises at once
Fatal(o) ==
    \/ o.cls = "APIError" /\ 400 <= o.status /\ o.status <= 499
    \/ o.cls = "Exception"

\* C40: transcribe_audio ends after at most max_retries API attempts. With
\* no audio it returns an empty text and makes no attempt. Otherwise every
\* attempt before its last met a rate limit, a connection error or an API
\* error that is not 4xx; the last attempt either succeeded, and its
\* stripped text is returned, or met a 4xx error or an unexpected
\* exception, and GroqClientError is raised at once, or was attempt number
\* max_retries and failed like the others, and GroqClientError is raised.
C40_TranscribeTerminates ==
    call.pc = "returned" =>
        LET r == call.result
            n == r.attempts
            outs == call.outs
        IN /\ n <= max_retries
           /\ IF WavLen(call.wav) = 0
              THEN r.ok /\ r.text = <<>> /\ n = 0
              ELSE /\ n >= 1
                   /\ \A i \in 1..(n - 1) : Retried(outs[i])
                   /\ r.ok => (outs[n].cls = "ok" /\ r.text = Strip(outs[n].text))
                   /\ ~r.ok => (\/ Fatal(outs[n])
                                \/ n = max_retries /\ Retried(outs[n]))

\* a call has raised on a 4xx error at its third attempt, after a rate
\* limit and a server error
C40_Witness ==
    /\ call.pc = "returned"
    /\ call.outs = <<RateLimitError, InternalServerError, AuthenticationError>>
    /\ ~call.result.ok /\ call.result.attempts = 3

====
